---- MODULE Spec2Model ----
(***************************************************************************)
(* AutoKudos: the batching / dedup / trigger engine.                       *)
(*                                                                         *)
(* The repository holds two variants of the same server:                   *)
(*   "index" = src/index.js           (static token, drain cap 82)         *)
(*   "part"  = src/unnamed/part_000   (token refresh, drain cap 100,       *)
(*                                     /trawl and /fire, last_fired_at)    *)
(* The variable `variant` is fixed by Init and selects the code path.      *)
(*                                                                         *)
(* Every handler is an async function: it runs atomically from one `await` *)
(* to the next, and other handlers may run in between.  One action of the  *)
(* model is one such segment: the awaited store / network operation        *)
(* together with the synchronous code that follows it up to the next await.*)
(* `task[t]` is the position and the locals of the handler running in      *)
(* slot t.                                                                 *)
(***************************************************************************)
EXTENDS Integers, Sequences, FiniteSets

(* ------------------------------------------------------------------ *)
(* Program constants                                                   *)
(* ------------------------------------------------------------------ *)
SIZE_THRESHOLD == 25
AGE_THRESHOLD_MS == 3600000
SEND_DELAY_MS == 1500
MAX_DRAIN_INDEX == 82
MAX_DRAIN_PART == 100
QUIET_START_HOUR == 23
QUIET_END_HOUR == 6
HOUR_MS == 3600000
DAY_HOURS == 24

(* ------------------------------------------------------------------ *)
(* Bounds of the model                                                 *)
(* ------------------------------------------------------------------ *)
\* Spec: the followed athletes' activities are 1..MaxId,
MaxId == 1
\* NumTasks handlers may be in flight at once,
NumTasks == 2
\* and MaxRequests handlers run in all
MaxRequests == 3
\* SpecSeq (one handler at a time): activities 1..MaxSeqId, MaxSeqRequests handlers
MaxSeqId == 3
MaxSeqRequests == 3
\* SpecChain (one handler at a time, one identifier at a time): MaxChainRequests handlers
MaxChainRequests == 27
\* SpecDrain (one handler at a time, batches over the drain cap): MaxDrainRequests handlers
MaxDrainRequests == 1
\* the clock starts at StartHour o'clock (reference time zone)
StartHour == 21
\* and advances by at most MaxHours hour steps
MaxHours == 3
\* failed sends within one flush
MaxSendFail == 2
\* SPOP replies of up to MaxPerm members are taken in every order
\* webhook events of SpecDouble: enough to fill one batch
MaxDoubleRequests == 25
\* SpecDouble: events arrive one at a time until the batch is this short of
\* SIZE_THRESHOLD, then they may overlap
DoubleGap == 2
\* the largest reply of SPOP whose every order is explored
MaxPerm == 2

(* ------------------------------------------------------------------ *)
(* Values                                                              *)
(* ------------------------------------------------------------------ *)
\* an absent key / JS null is None, a present value v is Some(v)
None == << >>
Some(v) == << v >>

\* String(n) for a non-negative integer: its decimal digits
RECURSIVE ToStr(_)
ToStr(n) ==
    IF n < 10 THEN << n >> ELSE Append(ToStr(n \div 10), n % 10)

RECURSIVE DigitsValue(_)
DigitsValue(s) ==
    IF s = << >> THEN 0
    ELSE 10 * DigitsValue(SubSeq(s, 1, Len(s) - 1)) + s[Len(s)]

\* parseInt(x): x is None (null) or Some(decimal string); NaN is None
ParseInt(x) ==
    IF x = None \/ x[1] = << >> THEN None ELSE Some(DigitsValue(x[1]))

\* a || b for a numeric a (NaN and 0 are falsy)
OrElse(a, b) ==
    IF a = None \/ a = Some(0) THEN b ELSE a[1]

\* moment().tz(MY_TZ).hour(), the clock's origin being a midnight of MY_TZ
HourOf(ms) == (ms \div HOUR_MS) % DAY_HOURS
\* moment().tz(MY_TZ).format('YYYY-MM-DD'): the calendar day, as a day number
DayOf(ms) == ms \div (HOUR_MS * DAY_HOURS)

\* athlete ids: the configured one and a followed one
MY_STRAVA_ID == << 7 >>
MyAthlete == 7
OtherAthlete == 8
\* the activity id of an activity of the configured athlete
MineId == 0
\* owner_id == MY_STRAVA_ID: a number loosely equal to the configured string
IsMe(athlete) == ToStr(athlete) = MY_STRAVA_ID

MaxDrain(v) == IF v = "index" THEN MAX_DRAIN_INDEX ELSE MAX_DRAIN_PART

\* the ascending sequence of a finite set of non-negative integers
RECURSIVE Ascending(_, _, _)
Ascending(S, lo, hi) ==
    IF lo > hi \/ S = {} THEN << >>
    ELSE IF lo = hi THEN IF lo \in S THEN << lo >> ELSE << >>
    ELSE LET mid == (lo + hi) \div 2
         IN  Ascending(S, lo, mid) \o Ascending(S, mid + 1, hi)
SortedSeq(S) ==
    IF S = {} THEN << >>
    ELSE Ascending(S, 0, CHOOSE x \in S : \A y \in S : y <= x)

SeqSet(s) == { s[i] : i \in 1..Len(s) }

\* the k-element subsets of S
RECURSIVE KSubsets(_, _)
KSubsets(S, k) ==
    IF k = 0 THEN { {} }
    ELSE UNION { { T \cup {x} : T \in KSubsets({ y \in S : y > x }, k - 1) } : x \in S }

\* (an SPOP without its count: every member is removed)
SpopChoices_All(S, n) == { S }
\* SPOP key n: removes and returns up to n arbitrary members
SpopChoices(S, n) ==
    IF Cardinality(S) <= n THEN { S }
    ELSE { S \ R : R \in KSubsets(S, Cardinality(S) - n) }

(* ------------------------------------------------------------------ *)
(* State                                                               *)
(* ------------------------------------------------------------------ *)
VARIABLES
    variant,        \* "index" or "part"
    now,            \* Date.now(), in ms from a midnight of MY_TZ
    queue,          \* strava:queue (a set)
    queue_start,    \* strava:queue_start
    processed,      \* strava:processed (a set)
    total_sent,     \* stats:total_sent
    days_active,    \* stats:days_active
    last_day,       \* stats:last_day
    last_fired_at,  \* stats:last_fired_at
    lastPollTime,   \* part_000's in-memory lastPollTime
    task,           \* the handlers in flight
    log             \* what has happened so far (history, read by no handler)

store == << queue, queue_start, processed, total_sent, days_active, last_day,
            last_fired_at >>
vars == << variant, now, queue, queue_start, processed, total_sent, days_active,
           last_day, last_fired_at, lastPollTime, task, log >>

Tasks == 1..NumTasks
StartTime == StartHour * HOUR_MS

IdleTask ==
    [ pc |-> "idle", kind |-> "none", ids |-> {}, startTime |-> None,
      items |-> << >>, today |-> 0, token |-> FALSE, feed |-> << >>,
      newIds |-> {}, stamp |-> 0, wake |-> 0, drained |-> {}, tried |-> << >>,
      counted |-> 0, before |-> None, acked |-> FALSE, lastTry |-> 0 ]

Init ==
    /\ variant \in { "index", "part" }
    /\ now = StartTime
    /\ queue = {}
    /\ queue_start = None
    /\ processed = {}
    /\ total_sent = None
    /\ days_active = None
    /\ last_day = None
    /\ last_fired_at = None
    /\ lastPollTime = StartTime
    /\ task = [ t \in Tasks |-> IdleTask ]
    /\ log = [ requests |-> 0, okSends |-> 0, forwarded |-> << >>, seenAgain |-> {},
               incrDays |-> << >>, pushed |-> {}, openedAt |-> None, gone |-> {}, placed |-> {} ]

(* ------------------------------------------------------------------ *)
(* Helpers of the actions                                              *)
(* ------------------------------------------------------------------ *)
Go(t, r) == task' = [ task EXCEPT ![t] = r ]
\* the handler in slot t has ended: its locals are dead
Return(t) == Go(t, IdleTask)
Note(r) == log' = r

\* no handler is in flight
Quiescent == \A t \in Tasks : task[t].pc = "idle"

\* a new handler takes the lowest free slot
FreeSlot(t) ==
    /\ task[t].pc = "idle"
    /\ \A u \in Tasks : u < t => task[u].pc # "idle"

\* INCR key
Incr(x) == IF x = None THEN Some(1) ELSE Some(x[1] + 1)

(* ------------------------------------------------------------------ *)
(* The clock                                                           *)
(* ------------------------------------------------------------------ *)
\* A store operation takes far less than a step of the clock, so the clock
\* steps only while every handler in flight waits for the network or for its
\* timer.
SlowWaits == { "idle", "wh_token", "wh_related", "pl_token", "pl_fetch",
               "fk_token", "fk_post", "fk_sleep" }
ClockMayStep == \A t \in Tasks : task[t].pc \in SlowWaits

\* an hour passes
TickHour ==
    /\ ClockMayStep
    /\ (now - StartTime) \div HOUR_MS < MaxHours
    /\ now' = now + HOUR_MS
    /\ UNCHANGED << variant, store, lastPollTime, task, log >>

\* time passes up to the expiry of the timer of slot t
TickToWake(t) ==
    /\ ClockMayStep
    /\ task[t].pc = "fk_sleep"
    /\ now < task[t].wake
    /\ now' = task[t].wake
    /\ UNCHANGED << variant, store, lastPollTime, task, log >>

(* ------------------------------------------------------------------ *)
(* 1. The webhook                                                      *)
(* ------------------------------------------------------------------ *)
\* (a handler that leaves the acknowledgement for later)
Ack_Deferred(r) == r
\* res.status(200).send(...): the first statement of the handler
Ack(r) == [ r EXCEPT !.acked = TRUE ]

\* app.post('/webhook'): acknowledge, then route the event
WebhookReceive(t, ev) ==
    /\ FreeSlot(t)
    /\ LET me == Ack([ IdleTask EXCEPT !.kind = "webhook" ])
       IN  IF ev.object_type = "activity" /\ ev.aspect_type = "create"
           THEN IF IsMe(ev.owner_id)
                THEN Go(t, [ me EXCEPT !.pc = IF variant = "part" THEN "wh_token"
                                                ELSE "wh_related",
                                       !.token = (variant = "index") ])
                ELSE Go(t, [ me EXCEPT !.pc = "aq_sadd", !.ids = { ev.object_id } ])
           ELSE Return(t)
    /\ Note([ log EXCEPT !.requests = IF ev.object_type = "activity"
                                         /\ ev.aspect_type = "create"
                                      THEN @ + 1 ELSE @ ])
    /\ UNCHANGED << variant, now, store, lastPollTime >>

\* part_000: const token = await getAccessToken()
WebhookToken(t, ok) ==
    /\ task[t].pc = "wh_token"
    /\ Go(t, [ task[t] EXCEPT !.pc = "wh_related", !.token = ok ])
    /\ UNCHANGED << variant, now, store, lastPollTime, log >>

\* the process exits: every handler in flight dies with it and none starts
Exit == task' = [ u \in Tasks |-> [ IdleTask EXCEPT !.pc = "dead" ] ]

\* await axios.get(.../related); ids = rel.data.map(a => a.id)
\* part_000:45-51 catches a failure of the fetch.  index.js:28 does not: the
\* promise of the async handler is rejected and nothing handles it, which
\* the runtime answers with a warning or with the exit of the process,
\* depending on its version and flags.
WebhookRelated(t, ok, rel) ==
    /\ task[t].pc = "wh_related"
    /\ ok => task[t].token
    /\ IF ok
       THEN IF rel # {}
            THEN Go(t, [ task[t] EXCEPT !.pc = "aq_sadd", !.ids = rel ])
            ELSE Return(t)
       ELSE IF variant = "part" THEN Return(t)
            ELSE Return(t) \/ Exit
    /\ UNCHANGED << variant, now, store, lastPollTime, log >>

(* ------------------------------------------------------------------ *)
(* 3. addToQueue                                                       *)
(* ------------------------------------------------------------------ *)
\* await redis.sadd(QUEUE_KEY, ...ids)
AqSadd(t) ==
    /\ task[t].pc = "aq_sadd"
    /\ queue' = queue \cup task[t].ids
    /\ Go(t, [ task[t] EXCEPT !.pc = "aq_get" ])
    /\ Note([ log EXCEPT !.pushed = IF task[t].kind = "webhook"
                                    THEN @ \cup task[t].ids ELSE @,
                         !.openedAt = IF queue = {} THEN Some(now) ELSE @,
                         !.gone = @ \ task[t].ids,
                         !.placed = IF task[t].kind = "webhook"
                                    THEN @ ELSE @ \cup task[t].ids ])
    /\ UNCHANGED << variant, now, queue_start, processed, total_sent, days_active,
                    last_day, last_fired_at, lastPollTime >>

\* await redis.get(START_TIME_KEY), and the test of its result
AqGet(t) ==
    /\ task[t].pc = "aq_get"
    /\ IF queue_start = None
       THEN Go(t, [ task[t] EXCEPT
                      !.pc = "aq_set",
                      !.startTime = IF variant = "part" THEN Some(ToStr(now)) ELSE None,
                      !.stamp = now ])
       ELSE Go(t, [ task[t] EXCEPT !.pc = "aq_scard", !.startTime = queue_start ])
    /\ UNCHANGED << variant, now, store, lastPollTime, log >>

\* await redis.set(START_TIME_KEY, Date.now()): the argument was evaluated
\* when the set was issued (kept in .stamp)
AqSet(t) ==
    /\ task[t].pc = "aq_set"
    /\ queue_start' = Some(ToStr(task[t].stamp))
    /\ Go(t, [ task[t] EXCEPT !.pc = "aq_scard", !.stamp = 0 ])
    /\ UNCHANGED << variant, now, queue, processed, total_sent, days_active,
                    last_day, last_fired_at, lastPollTime, log >>

\* index.js:68  Date.now() - (parseInt(exists) || Date.now())
\* part_000:93  Date.now() - parseInt(startTime)          (NaN is None)
TimeInQueue(v, startTime, clock) ==
    IF v = "index"
    THEN Some(clock - OrElse(ParseInt(startTime), clock))
    ELSE IF ParseInt(startTime) = None THEN None
         ELSE Some(clock - ParseInt(startTime)[1])

\* (an age test that fires at the threshold itself)
ShouldFire_AtThreshold(count, timeInQueue) ==
    \/ count >= SIZE_THRESHOLD
    \/ (timeInQueue # None /\ timeInQueue[1] >= AGE_THRESHOLD_MS)
\* count >= 25 || timeInQueue > 3600000
ShouldFire(count, timeInQueue) ==
    \/ count >= SIZE_THRESHOLD
    \/ (timeInQueue # None /\ timeInQueue[1] > AGE_THRESHOLD_MS)

\* await redis.scard(QUEUE_KEY), and the decision to fire
AqScard(t) ==
    /\ task[t].pc = "aq_scard"
    /\ LET count == Cardinality(queue)
           timeInQueue == TimeInQueue(variant, task[t].startTime, now)
       IN  IF ShouldFire(count, timeInQueue)
           THEN Go(t, [ task[t] EXCEPT !.pc = "fk_spop" ])
           ELSE Return(t)
    /\ UNCHANGED << variant, now, store, lastPollTime, log >>

(* ------------------------------------------------------------------ *)
(* 3. fireKudos                                                        *)
(* ------------------------------------------------------------------ *)
\* the orders in which SPOP may return the members it removed (every order of
\* a small reply; a large reply is taken in ascending order, the ids being
\* opaque to the code)
Orders(S) ==
    IF Cardinality(S) <= MaxPerm
    THEN { s \in [ 1..Cardinality(S) -> S ] : \A i, j \in DOMAIN s : s[i] = s[j] => i = j }
    ELSE { SortedSeq(S) }

\* where the for-loop goes next: the next post, or the code after the loop
\* (part_000:120 evaluates Date.now() as it issues the set of last_fired_at)
LoopNext(r) ==
    IF r.items # << >> THEN [ r EXCEPT !.pc = "fk_post" ]
    ELSE IF variant = "part" THEN [ r EXCEPT !.pc = "fk_fired", !.stamp = now ]
         ELSE [ r EXCEPT !.pc = "fk_del" ]

\* (an SPOP that returns members without removing them)
Remaining_Keeps(S, popped) == S
\* SPOP removes from the set the members it returns, in one store operation
Remaining(S, popped) == S \ popped

\* const items = await redis.spop(QUEUE_KEY, n)
\* part_000:99  if (items.length === 0) return;
FkSpop(t) ==
    /\ task[t].pc = "fk_spop"
    /\ \E popped \in SpopChoices(queue, MaxDrain(variant)) : \E order \in Orders(popped) :
         /\ queue' = Remaining(queue, popped)
         /\ Note([ log EXCEPT !.openedAt = IF Remaining(queue, popped) = {} THEN None ELSE @,
                              !.gone = @ \cup popped ])
         /\ LET r == [ task[t] EXCEPT !.items = order, !.drained = popped,
                                      !.before = total_sent ]
            IN  IF variant = "part"
                THEN IF popped = {} THEN Return(t)
                     ELSE Go(t, [ r EXCEPT !.pc = "fk_token" ])
                ELSE Go(t, [ r EXCEPT !.pc = "fk_last_day", !.today = DayOf(now) ])
    /\ UNCHANGED << variant, now, queue_start, processed, total_sent, days_active,
                    last_day, last_fired_at, lastPollTime >>

\* (a flush that puts the drained identifiers back when it gets no token)
FkToken_Requeues(t, ok) ==
    /\ task[t].pc = "fk_token"
    /\ IF ok
       THEN /\ Go(t, [ task[t] EXCEPT !.pc = "fk_last_day", !.token = TRUE,
                                      !.today = DayOf(now) ])
            /\ queue' = queue
       ELSE /\ Return(t)
            /\ queue' = queue \cup task[t].drained
    /\ UNCHANGED << variant, now, queue_start, processed, total_sent, days_active,
                    last_day, last_fired_at, lastPollTime, log >>
\* (a flush that goes on without a token)
FkToken_GoesOn(t, ok) ==
    /\ task[t].pc = "fk_token"
    /\ Go(t, [ task[t] EXCEPT !.pc = "fk_last_day", !.token = ok, !.today = DayOf(now) ])
    /\ UNCHANGED << variant, now, store, lastPollTime, log >>
\* part_000:101  const token = await getAccessToken(); if (!token) return;
FkToken(t, ok) ==
    /\ task[t].pc = "fk_token"
    /\ IF ok
       THEN Go(t, [ task[t] EXCEPT !.pc = "fk_last_day", !.token = TRUE,
                                   !.today = DayOf(now) ])
       ELSE Return(t)
    /\ UNCHANGED << variant, now, store, lastPollTime, log >>

\* const lastDay = await redis.get('stats:last_day'); if (lastDay !== today)
FkLastDay(t) ==
    /\ task[t].pc = "fk_last_day"
    /\ IF last_day # Some(task[t].today)
       THEN Go(t, [ task[t] EXCEPT !.pc = "fk_incr_day" ])
       ELSE Go(t, LoopNext(task[t]))
    /\ UNCHANGED << variant, now, store, lastPollTime, log >>

\* await redis.incr('stats:days_active')
FkIncrDay(t) ==
    /\ task[t].pc = "fk_incr_day"
    /\ days_active' = Incr(days_active)
    /\ Go(t, [ task[t] EXCEPT !.pc = "fk_set_day" ])
    /\ Note([ log EXCEPT !.incrDays = Append(@, task[t].today) ])
    /\ UNCHANGED << variant, now, queue, queue_start, processed, total_sent,
                    last_day, last_fired_at, lastPollTime >>

\* await redis.set('stats:last_day', today)
FkSetDay(t) ==
    /\ task[t].pc = "fk_set_day"
    /\ last_day' = Some(task[t].today)
    /\ Go(t, LoopNext(task[t]))
    /\ UNCHANGED << variant, now, queue, queue_start, processed, total_sent,
                    days_active, last_fired_at, lastPollTime, log >>

\* (a loop that a failed send ends)
AfterPost_Aborts(r, ok) ==
    IF ok THEN [ r EXCEPT !.pc = "fk_total" ] ELSE LoopNext([ r EXCEPT !.items = << >> ])
\* try { await axios.post; await redis.incr; await delay } catch (e) {}:
\* after a successful post the total is incremented, after a failed one the
\* loop goes on with the next identifier
AfterPost(r, ok) ==
    IF ok THEN [ r EXCEPT !.pc = "fk_total" ] ELSE LoopNext(r)

\* await axios.post(.../kudos): it succeeds, or throws into the catch
FkPost(t, ok) ==
    /\ task[t].pc = "fk_post"
    /\ ok \/ Cardinality({ i \in DOMAIN task[t].tried : ~task[t].tried[i][2] }) < MaxSendFail
    /\ LET r == [ task[t] EXCEPT !.items = Tail(@),
                                 !.tried = Append(@, << Head(task[t].items), ok >>),
                                 !.lastTry = now ]
       IN  Go(t, AfterPost(r, ok))
    /\ Note([ log EXCEPT !.okSends = IF ok THEN @ + 1 ELSE @ ])
    /\ UNCHANGED << variant, now, store, lastPollTime >>

\* await redis.incr('stats:total_sent'), then the timer is set
FkTotal(t) ==
    /\ task[t].pc = "fk_total"
    /\ total_sent' = Incr(total_sent)
    /\ Go(t, [ task[t] EXCEPT !.pc = "fk_sleep", !.wake = now + SEND_DELAY_MS,
                              !.counted = @ + 1 ])
    /\ UNCHANGED << variant, now, queue, queue_start, processed, days_active,
                    last_day, last_fired_at, lastPollTime, log >>

\* await new Promise(r => setTimeout(r, 1500)): the timer fires, no earlier
\* than its time
FkWake(t) ==
    /\ task[t].pc = "fk_sleep"
    /\ now >= task[t].wake
    /\ Go(t, LoopNext([ task[t] EXCEPT !.wake = 0 ]))
    /\ UNCHANGED << variant, now, store, lastPollTime, log >>

\* part_000:120  await redis.set('stats:last_fired_at', Date.now())
FkFired(t) ==
    /\ task[t].pc = "fk_fired"
    /\ last_fired_at' = Some(ToStr(task[t].stamp))
    /\ Go(t, [ task[t] EXCEPT !.pc = "fk_del", !.stamp = 0 ])
    /\ UNCHANGED << variant, now, queue, queue_start, processed, total_sent,
                    days_active, last_day, lastPollTime, log >>

\* await redis.del(START_TIME_KEY)
FkDel(t) ==
    /\ task[t].pc = "fk_del"
    /\ queue_start' = None
    /\ Return(t)
    /\ UNCHANGED << variant, now, queue, processed, total_sent, days_active,
                    last_day, last_fired_at, lastPollTime, log >>

\* part_000:82  app.post('/fire'): await fireKudos()
FireStart(t) ==
    /\ variant = "part"
    /\ FreeSlot(t)
    /\ Go(t, [ IdleTask EXCEPT !.pc = "fk_spop", !.kind = "fire" ])
    /\ Note([ log EXCEPT !.requests = @ + 1 ])
    /\ UNCHANGED << variant, now, store, lastPollTime >>

(* ------------------------------------------------------------------ *)
(* 2. poll                                                             *)
(* ------------------------------------------------------------------ *)
Quiet(hour) == hour >= QUIET_START_HOUR \/ hour < QUIET_END_HOUR

\* the for-loop over res.data: entries of MY_STRAVA_ID are skipped without an
\* await; after the loop, if (newIds.length > 0) await addToQueue(newIds)
RECURSIVE SkipMine(_)
SkipMine(feed) ==
    IF feed # << >> /\ IsMe(Head(feed).athlete) THEN SkipMine(Tail(feed)) ELSE feed

FeedNext(r) ==
    LET rest == SkipMine(r.feed)
    IN  IF rest # << >> THEN [ r EXCEPT !.pc = "pl_sadd", !.feed = rest ]
        ELSE IF r.newIds # {}
             THEN [ r EXCEPT !.pc = "aq_sadd", !.feed = rest, !.ids = r.newIds ]
             ELSE IdleTask

\* poll(), from setInterval ("timer") or from app.post('/trawl') ("trawl")
PollStart(t, kind) ==
    /\ FreeSlot(t)
    /\ kind = "trawl" => variant = "part"
    /\ lastPollTime' = IF variant = "part" THEN now ELSE lastPollTime
    /\ IF Quiet(HourOf(now)) THEN Return(t)
       ELSE Go(t, [ IdleTask EXCEPT !.kind = kind,
                                    !.pc = IF variant = "part" THEN "pl_token"
                                           ELSE "pl_fetch",
                                    !.token = (variant = "index") ])
    /\ Note([ log EXCEPT !.requests = @ + 1 ])
    /\ UNCHANGED << variant, now, store >>

\* part_000:64  const token = await getAccessToken(); if (!token) return;
PollToken(t, ok) ==
    /\ task[t].pc = "pl_token"
    /\ IF ok THEN Go(t, [ task[t] EXCEPT !.pc = "pl_fetch", !.token = TRUE ])
       ELSE Return(t)
    /\ UNCHANGED << variant, now, store, lastPollTime, log >>

\* await axios.get(.../activities/following): the feed, or the catch
PollFetch(t, ok, feed) ==
    /\ task[t].pc = "pl_fetch"
    /\ LET r == FeedNext([ task[t] EXCEPT !.feed = feed ])
       IN  /\ IF ok THEN Go(t, r) ELSE Return(t)
           /\ Note([ log EXCEPT !.forwarded = IF ok /\ r.pc = "aq_sadd"
                                              THEN @ \o SortedSeq(r.ids) ELSE @ ])
    /\ UNCHANGED << variant, now, store, lastPollTime >>

\* (a markSeen that reports every identifier as new)
SaddReply_AlwaysNew(S, x) == TRUE
\* the reply of SADD key x: whether x was newly added to S
SaddReply(S, x) == x \notin S

\* const isNew = await redis.sadd(PROCESSED_KEY, act.id); if (isNew) newIds.push
PollSadd(t) ==
    /\ task[t].pc = "pl_sadd"
    /\ LET id == Head(task[t].feed).id
           isNew == SaddReply(processed, id)
           r == FeedNext([ task[t] EXCEPT
                             !.feed = Tail(@),
                             !.newIds = IF isNew THEN @ \cup { id } ELSE @ ])
       IN  /\ processed' = processed \cup { id }
           /\ Go(t, r)
           /\ Note([ log EXCEPT !.forwarded = IF r.pc = "aq_sadd"
                                              THEN @ \o SortedSeq(r.ids) ELSE @,
                               !.seenAgain = IF isNew THEN @ ELSE @ \cup { id } ])
    /\ UNCHANGED << variant, now, queue, queue_start, total_sent, days_active,
                    last_day, last_fired_at, lastPollTime >>

\* A store operation of poll fails (the connection to Redis is lost, the
\* command times out): the await throws into the catch of poll
\* (part_000:78, index.js:56), which logs "Poll error" and returns.
PollSaddFails(t) ==
    /\ task[t].pc = "pl_sadd"
    /\ Return(t)
    /\ UNCHANGED << variant, now, store, lastPollTime, log >>

\* the same for the first store operation of the addToQueue that poll awaits
PollAqSaddFails(t) ==
    /\ task[t].pc = "aq_sadd"
    /\ task[t].kind \in { "timer", "trawl" }
    /\ Return(t)
    /\ UNCHANGED << variant, now, store, lastPollTime, log >>

(* ------------------------------------------------------------------ *)
(* The environment's inputs and the specifications                     *)
(* ------------------------------------------------------------------ *)
Owner(id) == IF id = MineId THEN MyAthlete ELSE OtherAthlete

\* the webhook events about the activities `ids`
EventsOf(ids) ==
    { [ object_type |-> ot, aspect_type |-> at, object_id |-> i, owner_id |-> Owner(i) ] :
        ot \in { "activity", "athlete" }, at \in { "create", "update" }, i \in ids }

\* a feed listing the activities S, in ascending order of id
FeedOf(S) ==
    LET ids == SortedSeq(S)
    IN  [ i \in 1..Len(ids) |-> [ id |-> ids[i], athlete |-> Owner(ids[i]) ] ]

\* a step of addToQueue or fireKudos in slot t; sends may fail if `flaky`
Engine(t, flaky) ==
    \/ AqSadd(t)
    \/ AqGet(t)
    \/ AqSet(t)
    \/ AqScard(t)
    \/ FkSpop(t)
    \/ \E ok \in BOOLEAN : FkToken(t, ok)
    \/ FkLastDay(t)
    \/ FkIncrDay(t)
    \/ FkSetDay(t)
    \/ \E ok \in { TRUE, ~flaky } : FkPost(t, ok)
    \/ FkTotal(t)
    \/ FkWake(t)
    \/ FkFired(t)
    \/ FkDel(t)
    \/ TickToWake(t)

\* a step of the webhook handler or of poll in slot t, before addToQueue
Ingest(t, related, feeds) ==
    \/ \E ok \in BOOLEAN : WebhookToken(t, ok)
    \/ task[t].pc = "wh_related" /\ \E ok \in BOOLEAN, rel \in related : WebhookRelated(t, ok, rel)
    \/ \E ok \in BOOLEAN : PollToken(t, ok)
    \/ task[t].pc = "pl_fetch" /\ \E ok \in BOOLEAN, feed \in feeds : PollFetch(t, ok, feed)
    \/ PollSadd(t)

\* a handler starts in slot t
Start(t, events) ==
    \/ \E ev \in events : WebhookReceive(t, ev)
    \/ \E kind \in { "timer", "trawl" } : PollStart(t, kind)
    \/ FireStart(t)

\* Spec: up to NumTasks handlers in flight, activities 1..MaxId and MineId
Ids == 1..MaxId
Next ==
    \/ TickHour
    \/ \E t \in Tasks : log.requests < MaxRequests /\ Start(t, EventsOf(Ids \cup { MineId }))
    \/ \E t \in Tasks : Ingest(t, SUBSET Ids, { FeedOf(S) : S \in SUBSET (Ids \cup { MineId }) })
    \/ \E t \in Tasks : Engine(t, TRUE)

Spec == Init /\ [][Next]_vars

\* SpecSeq: one handler at a time, activities 1..MaxSeqId and MineId
SeqIds == 1..MaxSeqId
NextSeq ==
    \/ TickHour
    \/ log.requests < MaxSeqRequests /\ Start(1, EventsOf(SeqIds \cup { MineId }))
    \/ Ingest(1, { {}, SeqIds }, { FeedOf({ 1 }), FeedOf(SeqIds \cup { MineId }) })
    \/ Engine(1, TRUE)

SpecSeq == Init /\ [][NextSeq]_vars

\* SpecFail: as SpecSeq, and the store operations of poll may fail
NextFail ==
    \/ NextSeq
    \/ PollSaddFails(1)
    \/ PollAqSaddFails(1)

SpecFail == Init /\ [][NextFail]_vars

\* SpecChain: one handler at a time; every event reports the next activity
\* not yet in the queue, so a batch grows by one identifier per event; sends
\* do not fail.
NextChain ==
    \/ TickHour
    \/ log.requests < MaxChainRequests
          /\ \E ev \in EventsOf({ Cardinality(queue) + 1 }) : WebhookReceive(1, ev)
    \/ Engine(1, FALSE)

SpecChain == Init /\ [][NextChain]_vars

\* SpecDrain: one handler at a time; a fetch replies with more activities
\* than fireKudos drains at once; sends do not fail, and the clock moves
\* only with the send delays.
DrainReplies == { {}, 1..(MaxDrain(variant) + 1) }
NextDrain ==
    \/ log.requests < MaxDrainRequests /\ Start(1, EventsOf({ MineId }))
    \/ Ingest(1, DrainReplies, { FeedOf(S \cup { MineId }) : S \in DrainReplies })
    \/ Engine(1, FALSE)

SpecDrain == Init /\ [][NextDrain]_vars

\* SpecDouble: webhook events about distinct activities of other athletes.
\* They arrive one at a time while the batch is short, and NumTasks of them
\* overlap when it is DoubleGap short of SIZE_THRESHOLD, so that concurrent
\* calls of addToQueue find the size at the threshold; no hour passes and
\* sends do not fail.
NextDouble ==
    \/ \E t \in Tasks :
          /\ log.requests < MaxDoubleRequests
          /\ Quiescent \/ Cardinality(queue) >= SIZE_THRESHOLD - DoubleGap
          /\ \E ev \in EventsOf({ log.requests + 1 }) : WebhookReceive(t, ev)
    \/ \E t \in Tasks : Engine(t, FALSE)

SpecDouble == Init /\ [][NextDouble]_vars

(* ------------------------------------------------------------------ *)
(* Properties                                                          *)
(* ------------------------------------------------------------------ *)
Val(x) == IF x = None THEN 0 ELSE x[1]
Count(s, x) == Cardinality({ i \in DOMAIN s : s[i] = x })
\* the positions of fireKudos after its SPOP
FlushPcs == { "fk_token", "fk_last_day", "fk_incr_day", "fk_set_day", "fk_post",
              "fk_total", "fk_sleep", "fk_fired", "fk_del" }
Ledger == << total_sent, days_active, last_day, last_fired_at >>

\* C1: whenever no handler is in flight, strava:queue_start is set if and
\* only if strava:queue is non-empty.
C1_OpenedAtIffNonEmpty ==
    Quiescent => ((queue_start # None) <=> (queue # {}))

\* the process is running
Alive == \A t \in Tasks : task[t].pc # "dead"

\* C2: no identifier is forwarded to addToQueue by the poll path more than
\* once, whatever happens between two polls; and while the process runs,
\* every identifier that poll has marked seen is forwarded exactly once: it
\* is in the newIds of the poll that marked it (still in its loop), or that
\* poll has forwarded it.
C2_DedupIdempotent ==
    \A id \in processed :
        LET n == Count(log.forwarded, id)
                   + Cardinality({ t \in Tasks : task[t].pc = "pl_sadd"
                                                   /\ id \in task[t].newIds })
        IN  n <= 1 /\ (Alive => n = 1)

\* a poll met an identifier again after it was flushed, and it was forwarded once
C2_Witness ==
    /\ Quiescent
    /\ \E id \in log.seenAgain : Count(log.forwarded, id) = 1 /\ id \notin queue

\* the step in which addToQueue, run by t, decides whether to flush
Decides(t) == task[t].pc = "aq_scard" /\ task'[t] # task[t]
\* the openedAt marker that the call read (nothing if it read none or no number)
ReadStamp(r) == IF r.startTime = None THEN None ELSE ParseInt(r.startTime)

\* C3: while the batch is younger than the age threshold (counted from the
\* time it became non-empty), an addToQueue call that finds fewer than 25
\* members invokes no flush, and one that finds 25 invokes the flush.
C3_SizeTrigger ==
    [][ \A t \in Tasks :
          ( /\ Decides(t)
            /\ log.openedAt # None
            /\ now - log.openedAt[1] < AGE_THRESHOLD_MS )
          => ( (task'[t].pc = "fk_spop") <=> (Cardinality(queue) >= SIZE_THRESHOLD) )
      ]_vars

C5_BoundedDrain ==
    /\ [](\A t \in Tasks :
            /\ Cardinality(task[t].drained) <= MaxDrain(variant)
            /\ Len(task[t].tried) <= MaxDrain(variant))
    /\ [][ \A t \in Tasks :
             ( /\ task[t].pc = "fk_spop"
               /\ task'[t] # task[t]
               /\ Cardinality(queue) > MaxDrain(variant) )
             => ( /\ queue' \subseteq queue
                  /\ Cardinality(queue \ queue') = MaxDrain(variant)
                  /\ task'[t].drained = queue \ queue'
                  /\ Cardinality(queue') = Cardinality(queue) - MaxDrain(variant) )
         ]_vars

\* a flush has drained MAX_BATCH_DRAIN identifiers, sent every one of them,
\* and left the others in the batch
C5_Witness ==
    \E t \in Tasks :
        /\ task[t].pc = "fk_del"
        /\ Cardinality(task[t].drained) = MaxDrain(variant)
        /\ Len(task[t].tried) = MaxDrain(variant)
        /\ queue # {}

\* C6: no step of a flush that drained zero identifiers changes totalSent,
\* activeDays, lastActiveDay or lastFlushAt, or makes an outbound call.
C6_EmptyFlushNoOp ==
    [][ \A t \in Tasks :
          ( /\ task[t].pc \in FlushPcs
            /\ task[t].drained = {}
            /\ task'[t] # task[t] )
          => ( /\ Ledger' = Ledger
               /\ task[t].pc \notin { "fk_token", "fk_post" } )
      ]_vars

\* C7: no calendar day is counted twice in stats:days_active, and whenever
\* no flush is between counting a day and recording it, stats:last_day is the
\* most recent day counted.
C7_OneCountPerDay ==
    /\ \A i, j \in DOMAIN log.incrDays : log.incrDays[i] = log.incrDays[j] => i = j
    /\ ( /\ log.incrDays # << >>
         /\ \A t \in Tasks : task[t].pc # "fk_set_day" )
       => last_day = Some(log.incrDays[Len(log.incrDays)])

\* the number of successful sends of a flush
Successes(tried) == Cardinality({ i \in DOMAIN tried : tried[i][2] })

\* C8: when the loop of a flush is over, every drained identifier has had
\* exactly one send attempt, whether or not an earlier send failed; none of
\* them is in the batch; and totalSent has grown by the number of successful
\* sends (by 2 for a batch of 3 whose second send failed).
C8_PartialFailureIsolation ==
    \A t \in Tasks :
        task[t].pc \in { "fk_fired", "fk_del" } =>
            LET r == task[t]
            IN  /\ Len(r.tried) = Cardinality(r.drained)
                /\ { r.tried[i][1] : i \in DOMAIN r.tried } = r.drained
                /\ r.drained \cap queue = {}
                /\ r.counted = Successes(r.tried)
                /\ Val(total_sent) - Val(r.before) = Successes(r.tried)

\* a flush of 3 identifiers whose second send failed is over, and totalSent
\* has grown by 2
C8_Witness ==
    \E t \in Tasks :
        LET r == task[t]
        IN  /\ r.pc \in { "fk_fired", "fk_del" }
            /\ Len(r.tried) = 3
            /\ r.tried[1][2] /\ ~r.tried[2][2] /\ r.tried[3][2]
            /\ Val(total_sent) = Val(r.before) + 2
            /\ r.drained \cap queue = {}

\* C9: stats:total_sent, with the increments of the successful sends that
\* have not reached it yet, equals the number of successful sends so far.
C9_TotalSentCountsSuccesses ==
    Val(total_sent) + Cardinality({ t \in Tasks : task[t].pc = "fk_total" })
      = log.okSends

\* C10: every identifier that the webhook path has added to strava:queue is
\* in strava:processed.
C10_PushedIsRecorded ==
    \A id \in log.pushed : id \in processed

\* the positions of the send loop of fireKudos
SendPcs == { "fk_post", "fk_total", "fk_sleep" }

\* C11: at most one fireKudos is in its send loop at any time.
C11_OneFlushAtATime ==
    Cardinality({ t \in Tasks : task[t].pc \in SendPcs }) <= 1

\* C12: the SPOP of a flush returns no identifier that an earlier SPOP has
\* drained and that has not been added again since, so flushes triggered on
\* the same batch drain disjoint sets; and a flush that drained nothing
\* attempts no send.
C12_DoubleTriggerSafe ==
    /\ [](\A t \in Tasks : (task[t].pc \in FlushPcs /\ task[t].drained = {})
                              => (task[t].tried = << >> /\ task[t].pc \notin SendPcs))
    /\ [][ \A t \in Tasks :
             ( task[t].pc = "fk_spop" /\ task'[t] # task[t] )
             => ( /\ task'[t].pc # "idle" => task'[t].drained \cap log.gone = {}
                  /\ queue \ queue' \subseteq queue
                  /\ (queue \ queue') \cap log.gone = {}
                  /\ queue' \cap (queue \ queue') = {} )
         ]_vars

\* two addToQueue calls found the size at the threshold and called fireKudos:
\* one flush has drained the batch and is sending, the other has found the
\* batch empty
C12_Witness ==
    \E t, u \in Tasks :
        /\ t # u
        /\ task[t].kind = "webhook" /\ task[u].kind = "webhook"
        /\ task[t].pc \in SendPcs
        /\ Cardinality(task[t].drained) >= SIZE_THRESHOLD
        /\ task[u].pc \in FlushPcs
        /\ task[u].drained = {}
        /\ ReadStamp(task[u]) = None \/ now <= ReadStamp(task[u])[1] + AGE_THRESHOLD_MS

\* the step in which fireKudos, run by t, gets no token and returns
TokenAbort(t) == task[t].pc = "fk_token" /\ task'[t].pc = "idle"

\* C13: a fireKudos that gets no token has attempted no send and returns
\* without changing totalSent, activeDays, lastActiveDay or lastFlushAt and
\* without putting the drained identifiers back; no fireKudos that asks for
\* a token goes past that point without one.
C13_TokenFailureAborts ==
    /\ [](\A t \in Tasks :
            /\ task[t].pc = "fk_token" => (task[t].tried = << >> /\ task[t].counted = 0)
            /\ (variant = "part" /\ task[t].pc \in FlushPcs \ { "fk_token" })
                  => task[t].token)
    /\ [][ \A t \in Tasks :
             TokenAbort(t)
             => ( /\ Ledger' = Ledger
                  /\ queue' = queue
                  /\ log'.okSends = log.okSends
                  /\ task[t].drained # {} )
         ]_vars

\* identifiers have been drained, every handler has returned, and neither a
\* send nor a ledger update has happened: the flush was aborted for want of
\* a token and its identifiers are lost
C13_Witness ==
    /\ variant = "part"
    /\ Quiescent
    /\ log.gone # {}
    /\ queue = {}
    /\ log.okSends = 0
    /\ Ledger = << None, None, None, None >>

\* the step in which poll, run by t, gets no token and returns
PollAbort(t) == task[t].pc = "pl_token" /\ task'[t].pc = "idle"

\* C14 as stated: after a poll or a flush that is aborted for want of a
\* token, the Pending Batch, its marker, the SeenSet and the ledger are as
\* they were before that poll or flush began (a flush begins with its SPOP).
C14_AuthFailureLeavesState ==
    [][ \A t \in Tasks :
          /\ TokenAbort(t) => ( /\ queue' = queue \cup task[t].drained
                                /\ queue_start' = queue_start
                                /\ processed' = processed
                                /\ Ledger' = Ledger )
          /\ PollAbort(t) => store' = store
      ]_vars

\* C14: a poll aborted for want of a token has changed nothing in the store;
\* a flush aborted for want of a token has changed neither the marker, the
\* SeenSet nor the ledger, but the identifiers it drained are out of the
\* Pending Batch and stay out.
C14_AuthFailureKeepsAllButDrained ==
    /\ [](\A t \in Tasks : task[t].pc = "pl_token"
                              => (task[t].feed = << >> /\ task[t].newIds = {}))
    /\ [][ \A t \in Tasks :
             /\ TokenAbort(t) => ( /\ task[t].drained # {}
                                   /\ task[t].drained \cap queue = {}
                                   /\ queue' = queue
                                   /\ queue_start' = queue_start
                                   /\ processed' = processed
                                   /\ Ledger' = Ledger )
             /\ PollAbort(t) => store' = store
         ]_vars

\* a flush has been aborted for want of a token: the batch it drained is
\* gone, its marker is still set, and nothing has been sent or recorded
C14_Witness ==
    /\ Quiescent
    /\ log.gone # {}
    /\ queue = {}
    /\ queue_start # None
    /\ log.okSends = 0
    /\ last_day = None /\ last_fired_at = None

\* a poll that starts in the quiet window: it returns at once, so no handler
\* takes a slot, and only a starting handler counts as a request
QuietPoll ==
    /\ Quiet(HourOf(now))
    /\ log'.requests # log.requests
    /\ task' = task

\* C15: a poll that starts with the hour in [23, 6) changes neither the
\* store (Pending Batch, marker, SeenSet, ledger) nor lastPollTime.
C15_QuietPollIsNoOp ==
    [][ QuietPoll => (store' = store /\ lastPollTime' = lastPollTime) ]_vars

\* C16: a send attempt of a flush that follows another one of that flush
\* completes no earlier than the send delay after the earlier one completed,
\* whether the earlier one succeeded or failed.
C16_DelayAfterEveryAttempt ==
    [][ \A t \in Tasks :
          ( /\ task[t].pc = "fk_post"
            /\ task[t].tried # << >>
            /\ task'[t].tried # task[t].tried )
          => now >= task[t].lastTry + SEND_DELAY_MS
      ]_vars

\* the step in which fireKudos, run by t, returns after its loop
FlushEnds(t) == task[t].pc = "fk_del" /\ task'[t].pc = "idle"

\* C17: when a flush that drained identifiers returns, stats:last_fired_at
\* holds a time no earlier than its last send attempt; and
\* stats:last_fired_at is written only by a flush whose loop is over.
C17_LastFlushAtAfterLoop ==
    [][ /\ \A t \in Tasks :
             ( FlushEnds(t) /\ task[t].drained # {} )
             => ( /\ ParseInt(last_fired_at) # None
                  /\ ParseInt(last_fired_at)[1] >= task[t].lastTry )
        /\ last_fired_at' # last_fired_at
             => \E t \in Tasks :
                  /\ task[t].pc = "fk_fired"
                  /\ task[t].items = << >>
                  /\ Len(task[t].tried) = Cardinality(task[t].drained)
                  /\ last_fired_at' = Some(ToStr(task[t].stamp))
      ]_vars

\* C18: a webhook handler that is waiting for a fetch, or that is in
\* addToQueue or in the flush it triggered, has sent its acknowledgement.
C18_AckFirst ==
    \A t \in Tasks :
        (task[t].kind = "webhook" /\ task[t].pc # "idle") => task[t].acked

\* a webhook handler has acknowledged its event and its downstream fetch is
\* bound to fail (it holds no token)
C18_Witness ==
    \E t \in Tasks :
        /\ task[t].kind = "webhook"
        /\ task[t].acked
        /\ task[t].pc = "wh_related"
        /\ ~task[t].token

\* the step in which a fetch of the handler in slot t fails (or brings
\* nothing to add): the handler does not go on
FetchEndsCycle(t) ==
    /\ task[t].pc \in { "wh_related", "pl_fetch" }
    /\ task'[t].pc \notin { task[t].pc, "aq_sadd", "pl_sadd" }

\* C19: the step that ends an ingestion cycle at its fetch changes nothing
\* in the store and leaves the worker running: the handler returns, the
\* other handlers go on and new ones can start.
C19_FetchFailureIsolated ==
    [][ \A t \in Tasks :
          FetchEndsCycle(t)
          => ( /\ store' = store
               /\ task'[t].pc = "idle"
               /\ \A u \in Tasks : u # t => task'[u] = task[u] )
      ]_vars

\* C20: every identifier in strava:processed has been added to strava:queue
\* by a poll, or is held by the poll that marked it (in newIds during the
\* feed loop, or as the argument of the addToQueue it has called).
C20_NoLostIds ==
    \A id \in processed :
        \/ id \in log.placed
        \/ \E t \in Tasks :
             /\ task[t].kind \in { "timer", "trawl" }
             /\ \/ task[t].pc = "pl_sadd" /\ id \in task[t].newIds
                \/ task[t].pc = "aq_sadd" /\ id \in task[t].ids

====
